---- MODULE Spec2Model ----
(***************************************************************************)
(* FinancialStatements.py: classification of statement rows into ordered   *)
(* sections (normalize, bucket_rows, build_ordered_sections), the layout   *)
(* of a sectioned sheet (write_sectioned_sheet, style_sheet) and the       *)
(* sequencing of main.                                                     *)
(*                                                                         *)
(* Text that the program inspects character by character (row labels,      *)
(* keywords, raw field names, the period field) is a sequence of           *)
(* one-character strings.  Text that is only copied (section names,        *)
(* titles) is a plain string.                                              *)
(***************************************************************************)
EXTENDS Integers, Sequences, FiniteSets, TLC

VARIABLES
  \* bucket_rows / build_ordered_sections applied to drawn inputs
  phase, index, section_rules, other_label, buckets, sections,
  \* main
  pc, stmt, raw, dfs, secs, file, writes, wb, r, sec_i, row_j, cause

classifyVars == <<phase, index, section_rules, other_label, buckets, sections>>
mainVars == <<pc, stmt, raw, dfs, secs, file, writes, wb, r, sec_i, row_j, cause>>
vars == <<phase, index, section_rules, other_label, buckets, sections,
          pc, stmt, raw, dfs, secs, file, writes, wb, r, sec_i, row_j, cause>>

----------------------------------------------------------------------------
\* Characters

UpperChars == <<"A","B","C","D","E","F","G","H","I","J","K","L","M",
                "N","O","P","Q","R","S","T","U","V","W","X","Y","Z">>
LowerChars == <<"a","b","c","d","e","f","g","h","i","j","k","l","m",
                "n","o","p","q","r","s","t","u","v","w","x","y","z">>
DigitChars == {"0","1","2","3","4","5","6","7","8","9"}

IsUpper(c) == \E i \in 1..26 : UpperChars[i] = c
IsLower(c) == \E i \in 1..26 : LowerChars[i] = c
IsSpace(c) == c = " "

\* str.lower() on one character
lower(c) == IF IsUpper(c) THEN LowerChars[CHOOSE i \in 1..26 : UpperChars[i] = c] ELSE c
\* str.upper() on one character
upper(c) == IF IsLower(c) THEN UpperChars[CHOOSE i \in 1..26 : LowerChars[i] = c] ELSE c

\* the class [a-z0-9] of normalize's pattern
IsLowerAlnum(c) == IsLower(c) \/ c \in DigitChars

\* str.strip(): leading and trailing white space removed
RECURSIVE lstrip(_)
lstrip(s) == IF s # <<>> /\ IsSpace(Head(s)) THEN lstrip(Tail(s)) ELSE s
RECURSIVE rstrip(_)
rstrip(s) ==
  IF s # <<>> /\ IsSpace(s[Len(s)]) THEN rstrip(SubSeq(s, 1, Len(s) - 1)) ELSE s
strip(s) == rstrip(lstrip(s))

\* re.sub(r"[^a-z0-9]+", " ", s): every maximal run of characters outside
\* [a-z0-9] becomes one space
RECURSIVE sub_non_alnum(_, _)
sub_non_alnum(s, in_run) ==
  IF s = <<>> THEN <<>>
  ELSE IF IsLowerAlnum(Head(s)) THEN <<Head(s)>> \o sub_non_alnum(Tail(s), FALSE)
  ELSE IF in_run THEN sub_non_alnum(Tail(s), TRUE)
  ELSE <<" ">> \o sub_non_alnum(Tail(s), TRUE)

normalize(s) ==
  strip(sub_non_alnum([i \in 1..Len(s) |-> lower(s[i])], FALSE))

\* Python's `kw in row_n` on strings
IsSubstring(kw, s) ==
  \E i \in 0..(Len(s) - Len(kw)) : SubSeq(s, i + 1, i + Len(kw)) = kw

----------------------------------------------------------------------------
\* prettify_label

\* s.replace("_", " ").replace("-", " ")
replace_separators(s) ==
  [i \in 1..Len(s) |-> IF s[i] \in {"_", "-"} THEN " " ELSE s[i]]

\* re.sub(r"(?<=[a-z])(?=[A-Z])", " ", s)
RECURSIVE split_lower_upper(_, _)
split_lower_upper(s, i) ==
  IF i > Len(s) THEN <<>>
  ELSE (IF i > 1 /\ IsLower(s[i - 1]) /\ IsUpper(s[i]) THEN <<" ">> ELSE <<>>)
       \o <<s[i]>> \o split_lower_upper(s, i + 1)

\* re.sub(r"(?<=[A-Z])(?=[A-Z][a-z])", " ", s)
RECURSIVE split_acronym(_, _)
split_acronym(s, i) ==
  IF i > Len(s) THEN <<>>
  ELSE (IF i > 1 /\ i < Len(s) /\ IsUpper(s[i - 1]) /\ IsUpper(s[i]) /\ IsLower(s[i + 1])
        THEN <<" ">> ELSE <<>>)
       \o <<s[i]>> \o split_acronym(s, i + 1)

\* re.sub(r"\s+", " ", s)
RECURSIVE collapse_spaces(_, _)
collapse_spaces(s, in_run) ==
  IF s = <<>> THEN <<>>
  ELSE IF ~IsSpace(Head(s)) THEN <<Head(s)>> \o collapse_spaces(Tail(s), FALSE)
  ELSE IF in_run THEN collapse_spaces(Tail(s), TRUE)
  ELSE <<" ">> \o collapse_spaces(Tail(s), TRUE)

\* str.title(): a cased character is upper case after an uncased one (or at
\* the start) and lower case after a cased one
title(s) ==
  [i \in 1..Len(s) |->
     IF i > 1 /\ (IsLower(s[i - 1]) \/ IsUpper(s[i - 1])) THEN lower(s[i]) ELSE upper(s[i])]

prettify_label(s) ==
  title(strip(collapse_spaces(
    split_acronym(split_lower_upper(replace_separators(s), 1), 1), FALSE)))

----------------------------------------------------------------------------
\* The rule sets

IS_RULES ==
  <<
    [section |-> "Revenue",
     keywords |-> <<<<"r","e","v","e","n","u","e">>,
                   <<"s","a","l","e","s">>>>],
    [section |-> "Cost Of Revenue",
     keywords |-> <<<<"c","o","s","t"," ","o","f"," ","r","e","v","e","n","u","e">>,
                   <<"c","o","s","t"," ","o","f"," ","g","o","o","d","s">>,
                   <<"c","o","g","s">>>>],
    [section |-> "Gross Profit",
     keywords |-> <<<<"g","r","o","s","s"," ","p","r","o","f","i","t">>>>],
    [section |-> "Operating Expenses",
     keywords |-> <<<<"s","e","l","l","i","n","g">>,
                   <<"g","e","n","e","r","a","l">>,
                   <<"a","d","m","i","n","i","s","t","r","a","t","i","v","e">>,
                   <<"s","g"," ","a">>,
                   <<"m","a","r","k","e","t","i","n","g">>,
                   <<"r","e","s","e","a","r","c","h">>,
                   <<"d","e","v","e","l","o","p","m","e","n","t">>,
                   <<"o","p","e","r","a","t","i","n","g"," ","e","x","p","e","n","s","e">>>>],
    [section |-> "Operating Income",
     keywords |-> <<<<"o","p","e","r","a","t","i","n","g"," ","i","n","c","o","m","e">>,
                   <<"e","b","i","t">>>>],
    [section |-> "Other Income / Expense",
     keywords |-> <<<<"i","n","t","e","r","e","s","t">>,
                   <<"o","t","h","e","r"," ","i","n","c","o","m","e">>,
                   <<"o","t","h","e","r"," ","e","x","p","e","n","s","e">>,
                   <<"n","o","n"," ","o","p","e","r","a","t","i","n","g">>>>],
    [section |-> "Pre-Tax Income",
     keywords |-> <<<<"i","n","c","o","m","e"," ","b","e","f","o","r","e"," ","t","a","x">>,
                   <<"p","r","e","t","a","x">>>>],
    [section |-> "Taxes",
     keywords |-> <<<<"t","a","x">>,
                   <<"i","n","c","o","m","e"," ","t","a","x">>>>],
    [section |-> "Net Income",
     keywords |-> <<<<"n","e","t"," ","i","n","c","o","m","e">>,
                   <<"n","e","t"," ","e","a","r","n","i","n","g","s">>>>]
  >>

BS_RULES ==
  <<
    [section |-> "Current Assets",
     keywords |-> <<<<"c","a","s","h">>,
                   <<"r","e","c","e","i","v","a","b","l","e">>,
                   <<"i","n","v","e","n","t","o","r","y">>,
                   <<"p","r","e","p","a","i","d">>,
                   <<"s","h","o","r","t"," ","t","e","r","m">>,
                   <<"c","u","r","r","e","n","t"," ","a","s","s","e","t">>,
                   <<"m","a","r","k","e","t","a","b","l","e"," ","s","e","c","u","r","i","t","i","e","s">>>>],
    [section |-> "Non-Current Assets",
     keywords |-> <<<<"p","r","o","p","e","r","t","y">>,
                   <<"p","l","a","n","t">>,
                   <<"e","q","u","i","p","m","e","n","t">>,
                   <<"p","p"," ","e">>,
                   <<"g","o","o","d","w","i","l","l">>,
                   <<"i","n","t","a","n","g","i","b","l","e">>,
                   <<"l","o","n","g"," ","t","e","r","m">>,
                   <<"n","o","n"," ","c","u","r","r","e","n","t"," ","a","s","s","e","t">>,
                   <<"d","e","f","e","r","r","e","d"," ","t","a","x"," ","a","s","s","e","t">>,
                   <<"r","i","g","h","t"," ","o","f"," ","u","s","e">>,
                   <<"l","e","a","s","e"," ","a","s","s","e","t">>,
                   <<"i","n","v","e","s","t","m","e","n","t">>>>],
    [section |-> "Current Liabilities",
     keywords |-> <<<<"a","c","c","o","u","n","t","s"," ","p","a","y","a","b","l","e">>,
                   <<"p","a","y","a","b","l","e">>,
                   <<"a","c","c","r","u","e","d">>,
                   <<"c","u","r","r","e","n","t"," ","l","i","a","b","i","l","i","t","y">>,
                   <<"s","h","o","r","t"," ","t","e","r","m"," ","d","e","b","t">>,
                   <<"d","e","f","e","r","r","e","d"," ","r","e","v","e","n","u","e">>,
                   <<"t","a","x"," ","p","a","y","a","b","l","e">>,
                   <<"c","u","r","r","e","n","t"," ","p","o","r","t","i","o","n">>>>],
    [section |-> "Non-Current Liabilities",
     keywords |-> <<<<"l","o","n","g"," ","t","e","r","m"," ","d","e","b","t">>,
                   <<"n","o","n"," ","c","u","r","r","e","n","t"," ","l","i","a","b","i","l","i","t","y">>,
                   <<"d","e","f","e","r","r","e","d"," ","t","a","x"," ","l","i","a","b","i","l","i","t","y">>,
                   <<"l","e","a","s","e"," ","l","i","a","b","i","l","i","t","y">>,
                   <<"p","e","n","s","i","o","n">>>>],
    [section |-> "Equity",
     keywords |-> <<<<"e","q","u","i","t","y">>,
                   <<"s","t","o","c","k","h","o","l","d","e","r","s">>,
                   <<"r","e","t","a","i","n","e","d"," ","e","a","r","n","i","n","g","s">>,
                   <<"c","o","m","m","o","n"," ","s","t","o","c","k">>,
                   <<"a","d","d","i","t","i","o","n","a","l"," ","p","a","i","d">>,
                   <<"a","o","c","i">>,
                   <<"t","r","e","a","s","u","r","y">>>>]
  >>

CF_RULES ==
  <<
    [section |-> "Cash Flow From Operations",
     keywords |-> <<<<"n","e","t"," ","i","n","c","o","m","e">>,
                   <<"d","e","p","r","e","c","i","a","t","i","o","n">>,
                   <<"a","m","o","r","t","i","z","a","t","i","o","n">>,
                   <<"s","t","o","c","k"," ","b","a","s","e","d">>,
                   <<"w","o","r","k","i","n","g"," ","c","a","p","i","t","a","l">>,
                   <<"a","c","c","o","u","n","t","s"," ","r","e","c","e","i","v","a","b","l","e">>,
                   <<"i","n","v","e","n","t","o","r","y">>,
                   <<"a","c","c","o","u","n","t","s"," ","p","a","y","a","b","l","e">>,
                   <<"d","e","f","e","r","r","e","d"," ","t","a","x">>,
                   <<"o","p","e","r","a","t","i","n","g"," ","a","c","t","i","v","i","t","i","e","s">>>>],
    [section |-> "Cash Flow From Investing",
     keywords |-> <<<<"c","a","p","i","t","a","l"," ","e","x","p","e","n","d","i","t","u","r","e">>,
                   <<"c","a","p","e","x">>,
                   <<"p","r","o","p","e","r","t","y"," ","p","l","a","n","t">>,
                   <<"a","c","q","u","i","s","i","t","i","o","n">>,
                   <<"i","n","v","e","s","t","m","e","n","t">>,
                   <<"i","n","v","e","s","t","i","n","g"," ","a","c","t","i","v","i","t","i","e","s">>,
                   <<"p","u","r","c","h","a","s","e"," ","o","f"," ","i","n","v","e","s","t","m","e","n","t","s">>,
                   <<"s","a","l","e"," ","o","f"," ","i","n","v","e","s","t","m","e","n","t","s">>>>],
    [section |-> "Cash Flow From Financing",
     keywords |-> <<<<"d","e","b","t">>,
                   <<"r","e","p","u","r","c","h","a","s","e">>,
                   <<"d","i","v","i","d","e","n","d">>,
                   <<"i","s","s","u","a","n","c","e">>,
                   <<"f","i","n","a","n","c","i","n","g"," ","a","c","t","i","v","i","t","i","e","s">>,
                   <<"b","o","r","r","o","w">>,
                   <<"r","e","p","a","y">>,
                   <<"c","o","m","m","o","n"," ","s","t","o","c","k">>,
                   <<"t","r","e","a","s","u","r","y"," ","s","t","o","c","k">>>>]
  >>

ScenarioRows ==
  <<
    <<"R","e","v","e","n","u","e">>,
    <<"C","o","s","t"," ","o","f"," ","R","e","v","e","n","u","e">>,
    <<"G","r","o","s","s"," ","P","r","o","f","i","t">>,
    <<"S","e","l","l","i","n","g"," ","G","e","n","e","r","a","l"," ","A","d","m","i","n","i","s","t","r","a","t","i","v","e"," ","E","x","p","e","n","s","e","s">>,
    <<"O","p","e","r","a","t","i","n","g"," ","I","n","c","o","m","e">>,
    <<"I","n","t","e","r","e","s","t"," ","E","x","p","e","n","s","e">>,
    <<"I","n","c","o","m","e"," ","B","e","f","o","r","e"," ","T","a","x">>,
    <<"I","n","c","o","m","e"," ","T","a","x"," ","E","x","p","e","n","s","e">>,
    <<"N","e","t"," ","I","n","c","o","m","e">>
  >>

\* other_label arguments of main's three calls
IS_OTHER == "Other Income Statement Items"
BS_OTHER == "Other Balance Sheet Items"
CF_OTHER == "Other Cash Flow Items"

SectionNames(rules) == {rules[i].section : i \in 1..Len(rules)}

----------------------------------------------------------------------------
\* bucket_rows

\* the loop over the keywords of one rule: TRUE iff it reaches `placed = True`
RECURSIVE scan_keywords(_, _, _)
scan_keywords(keywords, row_n, j) ==
  IF j > Len(keywords) THEN FALSE
  ELSE IF IsSubstring(keywords[j], row_n) THEN TRUE
  ELSE scan_keywords(keywords, row_n, j + 1)

ScanRulesLast(rules, row_n, i) ==
  LET hits == {h \in i..Len(rules) : scan_keywords(rules[h].keywords, row_n, 1)}
  IN  IF hits = {} THEN 0 ELSE CHOOSE h \in hits : \A g \in hits : g <= h

\* the loop over the rules: the position of the rule at which the loop breaks
\* with placed = True, 0 when it ends with placed = False
RECURSIVE scan_rules(_, _, _)
scan_rules(rules, row_n, i) ==
  IF i > Len(rules) THEN 0
  ELSE IF scan_keywords(rules[i].keywords, row_n, 1) THEN i
  ELSE scan_rules(rules, row_n, i + 1)

PlaceRowNoBreak(bkts, row, rules, other) ==
  LET row_n == normalize(row)
      hit == {rules[h].section : h \in {g \in 1..Len(rules) :
                                         scan_keywords(rules[g].keywords, row_n, 1)}}
  IN  IF hit = {} THEN [bkts EXCEPT ![other] = Append(@, row)]
      ELSE [b \in DOMAIN bkts |-> IF b \in hit THEN Append(bkts[b], row) ELSE bkts[b]]

PlaceRowInFront(bkts, row, rules, other) ==
  LET s == scan_rules(rules, normalize(row), 1)
  IN  IF s # 0 THEN [bkts EXCEPT ![rules[s].section] = <<row>> \o @]
      ELSE [bkts EXCEPT ![other] = <<row>> \o @]

\* the body of `for row in df.index`
place_row(bkts, row, rules, other) ==
  LET row_n == normalize(row)
      s == scan_rules(rules, row_n, 1)
  IN  IF s # 0 THEN [bkts EXCEPT ![rules[s].section] = Append(@, row)]
      ELSE [bkts EXCEPT ![other] = Append(@, row)]

RECURSIVE bucket_loop(_, _, _, _, _)
bucket_loop(bkts, idx, i, rules, other) ==
  IF i > Len(idx) THEN bkts
  ELSE bucket_loop(place_row(bkts, idx[i], rules, other), idx, i + 1, rules, other)

bucket_rows(df, rules, other) ==
  bucket_loop([b \in SectionNames(rules) \cup {other} |-> <<>>],
              df.index, 1, rules, other)

----------------------------------------------------------------------------
\* build_ordered_sections

\* df.loc[rows].index for a list of labels: each label of the list selects
\* every row of df that carries it, so a label that occurs n times in df and
\* n times in the list contributes n * n rows.  A row of the sub-table is the
\* position of the df row it was taken from.
RECURSIVE loc(_, _, _)
loc(df, rows, i) ==
  IF i > Len(rows) THEN <<>>
  ELSE SelectSeq([p \in 1..Len(df.index) |-> p], LAMBDA p : df.index[p] = rows[i])
       \o loc(df, rows, i + 1)

RECURSIVE rule_sections(_, _, _, _)
rule_sections(df, bkts, rules, i) ==
  IF i > Len(rules) THEN <<>>
  ELSE (IF bkts[rules[i].section] # <<>>
        THEN <<[name |-> rules[i].section, rows |-> loc(df, bkts[rules[i].section], 1)]>>
        ELSE <<>>)
       \o rule_sections(df, bkts, rules, i + 1)

BuildKeepingEmpty(df, rules, other) ==
  LET bkts == bucket_rows(df, rules, other)
  IN  [i \in 1..Len(rules) |->
         [name |-> rules[i].section, rows |-> loc(df, bkts[rules[i].section], 1)]]
      \o (IF bkts[other] # <<>>
          THEN <<[name |-> other, rows |-> loc(df, bkts[other], 1)]>> ELSE <<>>)

build_ordered_sections(df, rules, other) ==
  LET bkts == bucket_rows(df, rules, other)
  IN  rule_sections(df, bkts, rules, 1)
      \o (IF bkts[other] # <<>>
          THEN <<[name |-> other, rows |-> loc(df, bkts[other], 1)]>> ELSE <<>>)

----------------------------------------------------------------------------
\* Inputs of the classification

\* longest row sequence drawn
MaxRows == 3

Labels ==
  { <<"A","b">>,                                   \* normalized: ab
    <<"B","-","C">>,                               \* normalized: b c
    <<"Z","z","!">>,                               \* normalized: zz
    <<"N","e","t"," ","I","n","c","o","m","e">> }  \* normalized: net income

RECURSIVE SeqsUpTo(_, _)
SeqsUpTo(S, n) ==
  IF n = 0 THEN {<<>>}
  ELSE LET shorter == SeqsUpTo(S, n - 1)
       IN  shorter \cup {Append(s, x) : s \in {t \in shorter : Len(t) = n - 1}, x \in S}

RowSeqs == SeqsUpTo(Labels, MaxRows) \cup {ScenarioRows}

KeywordLists ==
  { <<>>,
    << <<"a">> >>,
    << <<"b"," ","c">>, <<"a","b">> >>,
    << <<"c">> >>,
    << <<"q">>, <<"b">> >> }

GenericRules == [section : {"S1", "S2"}, keywords : KeywordLists]

\* rule sets: ordered, section names distinct, the other label not one of them
\* (as IS_RULES, BS_RULES, CF_RULES and the labels main passes are)
Configs ==
  [rules : {<<>>}
           \cup {<<a>> : a \in GenericRules}
           \cup {<<p[1], p[2]>> :
                   p \in {q \in GenericRules \X GenericRules :
                            q[1].section # q[2].section}},
   other : {"Other"}]
  \cup {[rules |-> IS_RULES, other |-> IS_OTHER],
        [rules |-> BS_RULES, other |-> BS_OTHER],
        [rules |-> CF_RULES, other |-> CF_OTHER]}

\* a table of which only the row labels matter
Frame(idx) ==
  [index |-> idx, columns |-> <<>>, data |-> [i \in 1..Len(idx) |-> <<>>]]

MainIdle ==
  /\ pc = "idle" /\ stmt = 0 /\ raw = <<>> /\ dfs = <<>> /\ secs = <<>> /\ file = "absent"
  /\ writes = 0 /\ wb = <<>> /\ r = 0 /\ sec_i = 0 /\ row_j = 0 /\ cause = "none"

InitClassify ==
  /\ phase = "input"
  /\ index \in RowSeqs
  /\ \E c \in Configs : section_rules = c.rules /\ other_label = c.other
  /\ buckets = <<>>
  /\ sections = <<>>
  /\ MainIdle

ApplyBucketRows ==
  /\ phase = "input"
  /\ buckets' = bucket_rows(Frame(index), section_rules, other_label)
  /\ phase' = "bucketed"
  /\ UNCHANGED <<index, section_rules, other_label, sections>>
  /\ UNCHANGED mainVars

ApplyBuildOrderedSections ==
  /\ phase = "bucketed"
  /\ sections' = build_ordered_sections(Frame(index), section_rules, other_label)
  /\ phase' = "built"
  /\ UNCHANGED <<index, section_rules, other_label, buckets>>
  /\ UNCHANGED mainVars

NextClassify == ApplyBucketRows \/ ApplyBuildOrderedSections

SpecClassify == InitClassify /\ [][NextClassify]_vars

----------------------------------------------------------------------------
\* Configuration

SCALE == 1000
UNITS == "USD ($000s)"
ENDPOINTS == <<"income-statement", "balance-sheet-statement", "cash-flow-statement">>
RULES == <<IS_RULES, BS_RULES, CF_RULES>>
OTHERS == <<IS_OTHER, BS_OTHER, CF_OTHER>>
\* f"{TICKER} — ..." with TICKER = "V", the dash written in ASCII
TITLES == <<"V - Income Statement", "V - Balance Sheet", "V - Cash Flow Statement">>

----------------------------------------------------------------------------
\* fetch and format_statement
\*
\* A response is [status, json, has_date, keys, records]: the HTTP status, the
\* type of the decoded body, whether the records carry the "date" field, the
\* other field names in the order the records list them, and the records as
\* [year, period, vals] with vals aligned to keys.  A raw value is [v |-> n]
\* or Null; a cell of the table is [num |-> n, den |-> d] (the quotient n / d)
\* or NaN.

Null == [null |-> TRUE]
NaN == [nan |-> TRUE]

\* the columns format_statement drops
drop_cols ==
  { <<"s","y","m","b","o","l">>,
    <<"r","e","p","o","r","t","e","d","C","u","r","r","e","n","c","y">>,
    <<"c","i","k">>,
    <<"f","i","l","l","i","n","g","D","a","t","e">>,
    <<"f","i","l","i","n","g","D","a","t","e">>,
    <<"a","c","c","e","p","t","e","d","D","a","t","e">>,
    <<"c","a","l","e","n","d","a","r","Y","e","a","r">>,
    <<"f","i","s","c","a","l","Y","e","a","r">>,
    <<"p","e","r","i","o","d">>,
    <<"l","i","n","k">>,
    <<"f","i","n","a","l","L","i","n","k">> }

\* fetch raises on 403, on any other error status, and on a body that is not
\* a list
fetch_raises(resp) ==
  \/ resp.status = 403
  \/ resp.status >= 400
  \/ resp.json = "dict"
  \/ resp.json # "list"

\* df["period"].astype(str).str.lower().isin(["annual", "fy"])
is_annual(period) ==
  [i \in 1..Len(period) |-> lower(period[i])] \in {<<"a","n","n","u","a","l">>, <<"f","y">>}

\* df.sort_values(date_col), dates in distinct years
RECURSIVE sort_values(_)
sort_values(records) ==
  IF records = <<>> THEN <<>>
  ELSE LET m == CHOOSE i \in 1..Len(records) :
                  \A j \in 1..Len(records) : records[i].year <= records[j].year
       IN  <<records[m]>>
           \o sort_values(SubSeq(records, 1, m - 1) \o SubSeq(records, m + 1, Len(records)))

\* str(c.year)
YearStr(y) ==
  CASE y = 2022 -> "2022" [] y = 2023 -> "2023" [] y = 2024 -> "2024" [] y = 2025 -> "2025"

\* the raise of format_statement: no "date" column (also: an empty list)
format_raises(resp) == ~resp.has_date \/ resp.records = <<>>

\* df[num_cols] / scale on one value
scaled(v) == IF v = Null THEN NaN ELSE [num |-> v.v, den |-> SCALE]

format_statement(resp) ==
  LET annual == SelectSeq(resp.records, LAMBDA rec : is_annual(rec.period))
      sorted == sort_values(annual)
      kept == SelectSeq([i \in 1..Len(resp.keys) |-> i],
                        LAMBDA i : resp.keys[i] \notin drop_cols)
  IN  [index |-> [p \in 1..Len(kept) |-> prettify_label(resp.keys[kept[p]])],
       columns |-> [c \in 1..Len(sorted) |-> YearStr(sorted[c].year)],
       data |-> [p \in 1..Len(kept) |->
                   [c \in 1..Len(sorted) |-> scaled(sorted[c].vals[kept[p]])]]]

----------------------------------------------------------------------------
\* Worksheets
\*
\* A worksheet is [rows, freeze_panes, col_widths]; a row is [A, vals, fill,
\* font, number_format]: the cell of column A, the cells of columns 2.., and
\* the row's fill, font and number format.  A cell is Blank, [text |-> string],
\* [label |-> characters] or a table cell.

Blank == [blank |-> TRUE]
BlankRow == [A |-> Blank, vals |-> <<>>, fill |-> "none", font |-> "none",
             number_format |-> "General"]
EmptySheet == [rows |-> <<>>, freeze_panes |-> "none", col_widths |-> "default"]

\* what df.to_excel writes and load_workbook reads back
to_excel(df) ==
  [EmptySheet EXCEPT !.rows =
     <<[BlankRow EXCEPT !.vals = [c \in 1..Len(df.columns) |-> [text |-> df.columns[c]]]]>>
     \o [p \in 1..Len(df.index) |->
           [BlankRow EXCEPT !.A = [label |-> df.index[p]],
                            !.vals = [c \in 1..Len(df.columns) |->
                                        IF df.data[p][c] = NaN THEN Blank ELSE df.data[p][c]]]]]

\* ws.cell(row=n, ...) = row: rows up to n come into being
set_row(rows, n, row) ==
  [q \in 1..(IF n > Len(rows) THEN n ELSE Len(rows)) |->
     IF q = n THEN row ELSE IF q <= Len(rows) THEN rows[q] ELSE BlankRow]

\* ws.max_column
max_column(rows) ==
  LET widths == {1} \cup {1 + Len(rows[q].vals) : q \in 1..Len(rows)}
  IN  CHOOSE w \in widths : \A x \in widths : x <= w

\* lines 247-260: the sheet emptied, the header written into row 2
header_rows(df) ==
  <<BlankRow,
    [BlankRow EXCEPT !.A = [text |-> "Line Item"],
                     !.vals = [c \in 1..Len(df.columns) |-> [text |-> df.columns[c]]],
                     !.font = "header"]>>

\* lines 264-268: the banner of a section
banner_row(df, section_title) ==
  [BlankRow EXCEPT !.A = [text |-> section_title],
                   !.vals = [c \in 1..Len(df.columns) |-> [text |-> ""]],
                   !.fill = "banner", !.font = "section"]

\* line 275: the fill of a line-item row written at grid row n
band_fill(n) == IF n % 2 = 0 THEN "band" ELSE "none"

\* section_df.loc[row_label, y] is a Series, and `None if pd.isna(val)` raises,
\* when the label occurs more than once in the section's sub-table
loc_is_series(df, section, row_label) ==
  Cardinality({q \in 1..Len(section.rows) : df.index[section.rows[q]] = row_label}) > 1

\* lines 273-281 for the j-th row of a section, without its values when the
\* lookup raises
item_row(df, section, j, n, raises) ==
  LET p == section.rows[j]
  IN  [BlankRow EXCEPT !.A = [label |-> df.index[p]],
                       !.fill = band_fill(n),
                       !.vals = IF raises THEN <<>>
                                ELSE [c \in 1..Len(df.columns) |->
                                        IF df.data[p][c] = NaN THEN Blank
                                        ELSE df.data[p][c]]]

\* insert_title: a row inserted above row 1, the title in A1, the units in the
\* last column of row 1
insert_title(rows, ttl, units) ==
  LET shifted == <<BlankRow>> \o rows
      last == max_column(shifted)
  IN  [shifted EXCEPT ![1] =
         [BlankRow EXCEPT !.A = IF last = 1 THEN [text |-> units] ELSE [text |-> ttl],
                          !.vals = [c \in 1..(last - 1) |->
                                      IF c = last - 1 THEN [text |-> units] ELSE Blank],
                          !.font = "title"]]

IsNumber(cell) == DOMAIN cell = {"num", "den"}

\* freeze_headers (font of row 2) and apply_number_formats (rows 3..)
style_rows(rows) ==
  [q \in 1..Len(rows) |->
     LET row == rows[q]
     IN  IF q = 2 THEN [row EXCEPT !.font = "header"]
         ELSE IF q >= 3 /\ \E c \in 1..Len(row.vals) : IsNumber(row.vals[c])
              THEN [row EXCEPT !.number_format = "#,##0;(#,##0)"]
         ELSE row]

style_sheet(ws, ttl, units) ==
  [rows |-> style_rows(insert_title(ws.rows, ttl, units)),
   freeze_panes |-> "B3",
   col_widths |-> "42/16"]

----------------------------------------------------------------------------
\* Responses the provider can give

\* field names of the provider
K_revenue == <<"r","e","v","e","n","u","e">>
K_costOfRevenue == <<"c","o","s","t","O","f","R","e","v","e","n","u","e">>
K_netIncome == <<"n","e","t","I","n","c","o","m","e">>
K_net_income == <<"n","e","t","_","i","n","c","o","m","e">>
K_totalDebt == <<"t","o","t","a","l","D","e","b","t">>
K_cash == <<"c","a","s","h","A","n","d","C","a","s","h","E","q","u","i","v","a","l","e","n","t","s">>
K_eps == <<"e","p","s">>
K_symbol == <<"s","y","m","b","o","l">>

FY == <<"F","Y">>
Q1 == <<"Q","1">>

OkResponse(keys, records) ==
  [status |-> 200, json |-> "list", has_date |-> TRUE, keys |-> keys, records |-> records]

\* two fiscal years, newest first; two labels of the Revenue rule, one value
\* missing, one value that is no multiple of the scale
Resp_Income ==
  OkResponse(<<K_symbol, K_revenue, K_costOfRevenue, K_netIncome, K_eps>>,
    << [year |-> 2024, period |-> FY,
        vals |-> <<[s |-> "V"], [v |-> 5000], [v |-> 2000], [v |-> -1500], [v |-> 7]>>],
       [year |-> 2023, period |-> FY,
        vals |-> <<[s |-> "V"], [v |-> 4000], Null, [v |-> 0], [v |-> 6]>>] >>)

\* one annual record and one quarterly record
Resp_Balance ==
  OkResponse(<<K_totalDebt, K_cash>>,
    << [year |-> 2024, period |-> Q1, vals |-> <<[v |-> 900], [v |-> 100]>>],
       [year |-> 2023, period |-> FY, vals |-> <<[v |-> 3000], [v |-> 12000]>>] >>)

\* two field names that prettify_label maps to the same label
Resp_SameLabel ==
  OkResponse(<<K_netIncome, K_net_income>>,
    << [year |-> 2023, period |-> FY, vals |-> <<[v |-> 1000], [v |-> 2000]>>] >>)

\* one field, one annual record
Resp_Single ==
  OkResponse(<<K_eps>>, << [year |-> 2025, period |-> FY, vals |-> <<[v |-> 5]>>] >>)

OkResponses == {Resp_Income, Resp_Balance, Resp_SameLabel, Resp_Single}

Responses ==
  OkResponses
  \cup {[Resp_Balance EXCEPT !.status = 403],
        [Resp_Balance EXCEPT !.status = 500],
        [Resp_Balance EXCEPT !.json = "dict"],
        [Resp_Balance EXCEPT !.has_date = FALSE],
        [Resp_Balance EXCEPT !.records = <<>>]}

----------------------------------------------------------------------------
\* main

ClassifyIdle ==
  /\ phase = "idle" /\ index = <<>> /\ section_rules = <<>> /\ other_label = ""
  /\ buckets = <<>> /\ sections = <<>>

Init ==
  /\ pc = "fetch"
  /\ stmt = 1
  /\ raw = <<>>
  /\ dfs = <<>>
  /\ secs = <<>>
  /\ file = "absent"
  /\ writes = 0
  /\ wb = <<>>
  /\ r = 0
  /\ sec_i = 0
  /\ row_j = 0
  /\ cause = "none"
  /\ ClassifyIdle

\* lines 297-299: fetch(ENDPOINTS[stmt]) raises
FetchRaises ==
  /\ pc = "fetch"
  /\ \E resp \in Responses : fetch_raises(resp)
  /\ pc' = "aborted"
  /\ cause' = "fetch"
  /\ UNCHANGED <<stmt, raw, dfs, secs, file, writes, wb, r, sec_i, row_j>>
  /\ UNCHANGED classifyVars

\* lines 297-299: format_statement raises on what fetch returned
FormatRaises ==
  /\ pc = "fetch"
  /\ \E resp \in Responses :
       /\ ~fetch_raises(resp)
       /\ format_raises(resp)
       /\ raw' = Append(raw, resp)
  /\ pc' = "aborted"
  /\ cause' = "format"
  /\ UNCHANGED <<stmt, dfs, secs, file, writes, wb, r, sec_i, row_j>>
  /\ UNCHANGED classifyVars

FetchAndFormatWritingEarly ==
  /\ pc = "fetch"
  /\ \E resp \in Responses :
       /\ ~fetch_raises(resp)
       /\ ~format_raises(resp)
       /\ raw' = Append(raw, resp)
       /\ dfs' = Append(dfs, format_statement(resp))
       /\ wb' = Append(wb, to_excel(format_statement(resp)))
  /\ file' = "unstyled"
  /\ writes' = writes + 1
  /\ IF stmt < 3 THEN stmt' = stmt + 1 /\ pc' = "fetch"
                 ELSE stmt' = 1 /\ pc' = "build"
  /\ UNCHANGED <<secs, r, sec_i, row_j, cause>>
  /\ UNCHANGED classifyVars

\* lines 297-299: one statement fetched and reshaped
FetchAndFormat ==
  /\ pc = "fetch"
  /\ \E resp \in Responses :
       /\ ~fetch_raises(resp)
       /\ ~format_raises(resp)
       /\ raw' = Append(raw, resp)
       /\ dfs' = Append(dfs, format_statement(resp))
  /\ IF stmt < 3 THEN stmt' = stmt + 1 /\ pc' = "fetch"
                 ELSE stmt' = 1 /\ pc' = "build"
  /\ UNCHANGED <<secs, file, writes, wb, r, sec_i, row_j, cause>>
  /\ UNCHANGED classifyVars

\* lines 301-303
BuildSections ==
  /\ pc = "build"
  /\ secs' = [k \in 1..3 |-> build_ordered_sections(dfs[k], RULES[k], OTHERS[k])]
  /\ pc' = "excel_write"
  /\ UNCHANGED <<stmt, raw, dfs, file, writes, wb, r, sec_i, row_j, cause>>
  /\ UNCHANGED classifyVars

\* lines 306-311: the unstyled workbook written to OUT_FILE and read back
InitialWrite ==
  /\ pc = "excel_write"
  /\ file' = "unstyled"
  /\ writes' = writes + 1
  /\ wb' = [k \in 1..3 |-> to_excel(dfs[k])]
  /\ pc' = "write_header"
  /\ UNCHANGED <<stmt, raw, dfs, secs, r, sec_i, row_j, cause>>
  /\ UNCHANGED classifyVars

\* write_sectioned_sheet, lines 247-260
WriteHeader ==
  /\ pc = "write_header"
  /\ wb' = [wb EXCEPT ![stmt].rows = header_rows(dfs[stmt])]
  /\ r' = 3
  /\ sec_i' = 1
  /\ row_j' = 0
  /\ pc' = "section"
  /\ UNCHANGED <<stmt, raw, dfs, secs, file, writes, cause>>
  /\ UNCHANGED classifyVars

\* write_sectioned_sheet, lines 262-270: the next section's banner
WriteBanner ==
  /\ pc = "section"
  /\ sec_i <= Len(secs[stmt])
  /\ wb' = [wb EXCEPT ![stmt].rows =
              set_row(@, r, banner_row(dfs[stmt], secs[stmt][sec_i].name))]
  /\ r' = r + 1
  /\ row_j' = 1
  /\ pc' = "rows"
  /\ UNCHANGED <<stmt, raw, dfs, secs, file, writes, sec_i, cause>>
  /\ UNCHANGED classifyVars

WriteRowBandInSection ==
  /\ pc = "rows"
  /\ row_j <= Len(secs[stmt][sec_i].rows)
  /\ LET df == dfs[stmt]
         section == secs[stmt][sec_i]
         raises == /\ loc_is_series(df, section, df.index[section.rows[row_j]])
                   /\ df.columns # <<>>
     IN  /\ wb' = [wb EXCEPT ![stmt].rows =
                     set_row(@, r, [item_row(df, section, row_j, r, raises)
                                      EXCEPT !.fill = band_fill(row_j)])]
         /\ IF raises
            THEN pc' = "aborted" /\ cause' = "render" /\ UNCHANGED <<r, row_j>>
            ELSE pc' = "rows" /\ r' = r + 1 /\ row_j' = row_j + 1 /\ UNCHANGED cause
  /\ UNCHANGED <<stmt, raw, dfs, secs, file, writes, sec_i>>
  /\ UNCHANGED classifyVars

\* write_sectioned_sheet, lines 272-283: one line item, or the ValueError of
\* line 281
WriteRow ==
  /\ pc = "rows"
  /\ row_j <= Len(secs[stmt][sec_i].rows)
  /\ LET df == dfs[stmt]
         section == secs[stmt][sec_i]
         raises == /\ loc_is_series(df, section, df.index[section.rows[row_j]])
                   /\ df.columns # <<>>
     IN  /\ wb' = [wb EXCEPT ![stmt].rows =
                     set_row(@, r, item_row(df, section, row_j, r, raises))]
         /\ IF raises
            THEN pc' = "aborted" /\ cause' = "render" /\ UNCHANGED <<r, row_j>>
            ELSE pc' = "rows" /\ r' = r + 1 /\ row_j' = row_j + 1 /\ UNCHANGED cause
  /\ UNCHANGED <<stmt, raw, dfs, secs, file, writes, sec_i>>
  /\ UNCHANGED classifyVars

\* write_sectioned_sheet, line 285: the separator row after a section
EndSection ==
  /\ pc = "rows"
  /\ row_j > Len(secs[stmt][sec_i].rows)
  /\ r' = r + 1
  /\ sec_i' = sec_i + 1
  /\ pc' = "section"
  /\ UNCHANGED <<stmt, raw, dfs, secs, file, writes, wb, row_j, cause>>
  /\ UNCHANGED classifyVars

\* write_sectioned_sheet returns
EndSheet ==
  /\ pc = "section"
  /\ sec_i > Len(secs[stmt])
  /\ pc' = "style"
  /\ UNCHANGED <<stmt, raw, dfs, secs, file, writes, wb, r, sec_i, row_j, cause>>
  /\ UNCHANGED classifyVars

\* style_sheet, lines 288-292, then the next sheet
StyleSheet ==
  /\ pc = "style"
  /\ wb' = [wb EXCEPT ![stmt] = style_sheet(@, TITLES[stmt], UNITS)]
  /\ IF stmt < 3 THEN stmt' = stmt + 1 /\ pc' = "write_header"
                 ELSE stmt' = stmt /\ pc' = "save"
  /\ UNCHANGED <<raw, dfs, secs, file, writes, r, sec_i, row_j, cause>>
  /\ UNCHANGED classifyVars

\* line 330: wb.save(OUT_FILE)
Save ==
  /\ pc = "save"
  /\ file' = "styled"
  /\ writes' = writes + 1
  /\ pc' = "done"
  /\ UNCHANGED <<stmt, raw, dfs, secs, wb, r, sec_i, row_j, cause>>
  /\ UNCHANGED classifyVars

Next ==
  \/ FetchRaises \/ FormatRaises \/ FetchAndFormat
  \/ BuildSections \/ InitialWrite
  \/ WriteHeader \/ WriteBanner \/ WriteRow \/ EndSection \/ EndSheet
  \/ StyleSheet \/ Save

Spec == Init /\ [][Next]_vars

----------------------------------------------------------------------------
\* Properties of the classification

Count(s, x) == Cardinality({i \in DOMAIN s : s[i] = x})

RECURSIVE SumOver(_, _)
SumOver(S, f) ==
  IF S = {} THEN 0 ELSE LET x == CHOOSE y \in S : TRUE IN f[x] + SumOver(S \ {x}, f)

RECURSIVE IsSubsequence(_, _)
IsSubsequence(a, b) ==
  IF a = <<>> THEN TRUE
  ELSE IF b = <<>> THEN FALSE
  ELSE IF Head(a) = Head(b) THEN IsSubsequence(Tail(a), Tail(b))
  ELSE IsSubsequence(a, Tail(b))

\* the rules one of whose keywords occurs in the normalized label
Hits(label) ==
  {i \in 1..Len(section_rules) :
     \E j \in 1..Len(section_rules[i].keywords) :
        IsSubstring(section_rules[i].keywords[j], normalize(label))}
FirstHit(label) == CHOOSE i \in Hits(label) : \A h \in Hits(label) : i <= h
InBucket(name, label) == \E q \in 1..Len(buckets[name]) : buckets[name][q] = label
Bucketed == phase \in {"bucketed", "built"}

\* C1: the bucket lists of bucket_rows' result, taken together, are a
\* permutation of the input rows: every label occurs in them as often as in
\* the input, and nothing else does.
C1_TotalCoverage ==
  Bucketed =>
    /\ DOMAIN buckets = SectionNames(section_rules) \cup {other_label}
    /\ SumOver(DOMAIN buckets, [b \in DOMAIN buckets |-> Len(buckets[b])]) = Len(index)
    /\ \A p \in 1..Len(index) :
         SumOver(DOMAIN buckets, [b \in DOMAIN buckets |-> Count(buckets[b], index[p])])
           = Count(index, index[p])

C1_Witness ==
  /\ Bucketed
  /\ Len(index) = 3
  /\ Cardinality(Hits(index[1])) >= 2
  /\ Hits(index[2]) = {}
  /\ index[3] = index[1]

\* C2: a row is in the bucket of the first rule, in declared order, one of
\* whose keywords is a substring of its normalized label, and in no other
\* bucket; it is in the Other bucket if and only if no keyword of any rule is.
C2_FirstMatchWins ==
  Bucketed =>
    \A p \in 1..Len(index) : \A name \in DOMAIN buckets :
       InBucket(name, index[p]) <=>
         IF Hits(index[p]) = {} THEN name = other_label
         ELSE name = section_rules[FirstHit(index[p])].section

C2_Witness ==
  /\ Bucketed
  /\ \E p \in 1..Len(index) :
       /\ Cardinality(Hits(index[p])) >= 2
       /\ InBucket(section_rules[FirstHit(index[p])].section, index[p])
  /\ \E p \in 1..Len(index) : Hits(index[p]) = {} /\ InBucket(other_label, index[p])

\* position of a section name in the declared order, the Other label after all
Pos(name) ==
  IF name = other_label THEN Len(section_rules) + 1
  ELSE CHOOSE i \in 1..Len(section_rules) : section_rules[i].section = name

C4_EveryRowOnce ==
  phase = "built" =>
    /\ SumOver(1..Len(sections), [i \in 1..Len(sections) |-> Len(sections[i].rows)])
         = Len(index)
    /\ \A p \in 1..Len(index) :
         SumOver(1..Len(sections),
                 [i \in 1..Len(sections) |-> Count(sections[i].rows, p)]) = 1

ScenarioSections ==
  <<"Revenue", "Cost Of Revenue", "Gross Profit", "Operating Expenses",
    "Operating Income", "Other Income / Expense", "Pre-Tax Income", "Taxes",
    "Net Income">>

\* C5 (as claimed): the nine scenario rows against IS_RULES give nine sections
\* of one row each, in the declared order, the i-th row in the i-th section.
C5_IncomeScenario ==
  (phase = "built" /\ index = ScenarioRows /\ section_rules = IS_RULES) =>
    /\ Len(sections) = 9
    /\ \A i \in 1..Len(sections) :
         i <= 9 => sections[i].name = ScenarioSections[i] /\ sections[i].rows = <<i>>

\* C6: every bucket list is a subsequence of the input row sequence.
C6_OrderPreserved ==
  Bucketed => \A b \in DOMAIN buckets : IsSubsequence(buckets[b], index)

C6_Witness ==
  /\ Bucketed
  /\ \E b \in DOMAIN buckets :
       /\ Len(buckets[b]) = 2
       /\ buckets[b][1] # buckets[b][2]
       /\ b # other_label
       /\ Pos(b) = 2

----------------------------------------------------------------------------
\* Properties of the sheets and of main

\* the grid rows the layout of write_sectioned_sheet gives to sheet k
RECURSIVE BannerAt(_, _)
BannerAt(k, i) == IF i = 1 THEN 3 ELSE BannerAt(k, i - 1) + Len(secs[k][i - 1].rows) + 2
ItemAt(k, i, j) == BannerAt(k, i) + j

Styled(k) == k \in DOMAIN wb /\ wb[k].freeze_panes = "B3"
\* write_sectioned_sheet is at work on, or has just returned, the current sheet
LayingOut == pc \in {"section", "rows", "style"} \/ (pc = "aborted" /\ cause = "render")

\* C7 (as claimed): in a finished sheet row 1 holds the title and the units,
\* row 2 is the header row and the first section banner is in row 3.
C7_SheetStructure ==
  \A k \in 1..3 :
    Styled(k) =>
      LET rows == wb[k].rows
      IN  /\ Len(rows) >= 2
          /\ rows[1].A = [text |-> TITLES[k]]
          /\ \E c \in 1..Len(rows[1].vals) : rows[1].vals[c] = [text |-> UNITS]
          /\ rows[2].A = [text |-> "Line Item"]
          /\ rows[2].vals = [c \in 1..Len(dfs[k].columns) |-> [text |-> dfs[k].columns[c]]]
          /\ secs[k] # <<>> =>
               /\ Len(rows) >= 3
               /\ rows[3].A = [text |-> secs[k][1].name]
               /\ rows[3].fill = "banner"

\* C8: when a fetch or a reshape has raised, the output file has not been
\* written, and (the run having ended) never is.
C8_NoReportOnFetchFailure ==
  cause \in {"fetch", "format"} => writes = 0 /\ file = "absent" /\ pc = "aborted"

C8_Witness ==
  /\ cause = "format"
  /\ Len(dfs) = 2
  /\ writes = 0

\* the value the grid must show for a raw value
Rendered(v) == IF v = Null THEN Blank ELSE [num |-> v.v, den |-> SCALE]

\* the rendering of sheet k has ended: it returned, or it raised
RenderEnded(k) == Styled(k) \/ (pc = "aborted" /\ cause = "render" /\ k = stmt)

\* C9 (as claimed): for every field of the input and every annual record, the
\* grid has exactly as many rows carrying the field's label as the input has
\* fields with that label, and one of them shows, in the column whose header
\* carries the record's year, the record's value divided by the scale (blank
\* when the value is missing).
C9_RoundTrip ==
  \A k \in 1..3 :
    RenderEnded(k) =>
      LET rows == wb[k].rows
          keys == raw[k].keys
          fields == {f \in 1..Len(keys) : keys[f] \notin drop_cols}
          carrying(f) == {q \in 1..Len(rows) : rows[q].A = [label |-> prettify_label(keys[f])]}
          same(f) == {g \in fields : prettify_label(keys[g]) = prettify_label(keys[f])}
      IN  \A f \in fields :
            /\ Cardinality(carrying(f)) = Cardinality(same(f))
            /\ \A n \in 1..Len(raw[k].records) :
                 is_annual(raw[k].records[n].period) =>
                   \E h \in 1..Len(rows) : \E c \in 1..Len(rows[h].vals) :
                     /\ rows[h].A = [text |-> "Line Item"]
                     /\ rows[h].vals[c] = [text |-> YearStr(raw[k].records[n].year)]
                     /\ \E q \in carrying(f) :
                          /\ c <= Len(rows[q].vals)
                          /\ rows[q].vals[c] = Rendered(raw[k].records[n].vals[f])

\* the same, for inputs whose labels are distinct
C9_RoundTripDistinctLabels ==
  \A k \in 1..3 :
    (k \in DOMAIN dfs /\ \A a, b \in 1..Len(dfs[k].index) :
                           a # b => dfs[k].index[a] # dfs[k].index[b])
      => (RenderEnded(k) =>
      LET rows == wb[k].rows
          keys == raw[k].keys
          fields == {f \in 1..Len(keys) : keys[f] \notin drop_cols}
          carrying(f) == {q \in 1..Len(rows) : rows[q].A = [label |-> prettify_label(keys[f])]}
      IN  \A f \in fields :
            /\ Cardinality(carrying(f)) = 1
            /\ \A n \in 1..Len(raw[k].records) :
                 is_annual(raw[k].records[n].period) =>
                   \E h \in 1..Len(rows) : \E c \in 1..Len(rows[h].vals) :
                     /\ rows[h].A = [text |-> "Line Item"]
                     /\ rows[h].vals[c] = [text |-> YearStr(raw[k].records[n].year)]
                     /\ \A q \in carrying(f) :
                          /\ c <= Len(rows[q].vals)
                          /\ rows[q].vals[c] = Rendered(raw[k].records[n].vals[f]))

\* C10: in the grid write_sectioned_sheet lays out, the header is in row 2,
\* section i has its banner in row BannerAt(i), its items in the rows after
\* it and one separator row behind them; a banner row has the banner fill, an
\* item row the band fill if and only if its grid row is even, and every other
\* row no fill.  The cursor r is where the layout puts the next row.
C10_Banding ==
  LayingOut =>
    LET rows == wb[stmt].rows
        sct == secs[stmt]
        IsBanner(q) == \E i \in 1..Len(sct) : q = BannerAt(stmt, i)
        IsItem(q) == \E i \in 1..Len(sct) : \E j \in 1..Len(sct[i].rows) :
                        q = ItemAt(stmt, i, j)
    IN  /\ r = IF sec_i > Len(sct) THEN BannerAt(stmt, sec_i)
               ELSE IF pc = "section" THEN BannerAt(stmt, sec_i)
               ELSE ItemAt(stmt, sec_i, row_j)
        /\ Len(rows) <= (IF r > 3 THEN r ELSE 2)
        /\ rows[2].A = [text |-> "Line Item"] /\ rows[2].fill = "none"
        /\ \A q \in 1..Len(rows) :
             rows[q].fill = IF IsBanner(q) THEN "banner"
                            ELSE IF IsItem(q) /\ q % 2 = 0 THEN "band"
                            ELSE "none"
        /\ \A i \in 1..Len(sct) : \A j \in 1..Len(sct[i].rows) :
             ItemAt(stmt, i, j) <= Len(rows) =>
               rows[ItemAt(stmt, i, j)].A = [label |-> dfs[stmt].index[sct[i].rows[j]]]
        /\ \A i \in 1..Len(sct) :
             BannerAt(stmt, i) <= Len(rows) =>
               rows[BannerAt(stmt, i)].A = [text |-> sct[i].name]

C10_Witness ==
  /\ pc = "style"
  /\ Len(secs[stmt]) >= 2
  /\ Len(secs[stmt][1].rows) >= 2
  /\ wb[stmt].rows[4].fill = "band"
  /\ wb[stmt].rows[5].fill = "none"
  /\ \E q \in 6..Len(wb[stmt].rows) : wb[stmt].rows[q].fill = "band"

====
